---- MODULE Spec2Model ----
(***************************************************************************)
(* gbasis/deriv.py: evaluation of (derivatives of) Cartesian Gaussian      *)
(* contractions.  The module models eval_deriv_contraction statement by    *)
(* statement on n-dimensional arrays with numpy's shape, broadcasting,     *)
(* view/copy and indexing rules, and the three wrappers that call it.      *)
(*                                                                         *)
(* Numbers.  Coordinates, orders, angular momenta and coefficients are     *)
(* integers and every exponent alpha is a perfect square, so alpha ** 0.5  *)
(* is an integer.  exp(t) is kept symbolic: a Gaussian-valued element is   *)
(* the record [c |-> k, e |-> t] standing for k * exp(t), and the result   *)
(* of np.sum is a formal sum of such terms (a function from exponent to   *)
(* nonzero coefficient).  Floating-point rounding is not modelled.         *)
(***************************************************************************)
EXTENDS Integers, Sequences, FiniteSets, TLC

(***************************************************************************)
(* Bounds of the model.                                                    *)
(***************************************************************************)
MaxOrder == 2
MaxAngmom == 2

(***************************************************************************)
(* Scalars.                                                                *)
(***************************************************************************)
Max2(a, b) == IF a >= b THEN a ELSE b

\* numpy's integer/float power for a non-negative integer exponent; 0 ** 0 = 1.
RECURSIVE Pow(_, _)
Pow(b, n) == IF n <= 0 THEN 1 ELSE b * Pow(b, n - 1)

\* alphas ** 0.5 on a perfect square.
Sqrt(a) == CHOOSE s \in 0..a : s * s = a

RECURSIVE Factorial(_)
Factorial(n) == IF n <= 0 THEN 1 ELSE n * Factorial(n - 1)

\* scipy.special.comb(N, k): N choose k, and 0 when k > N, N < 0 or k < 0.
comb(N, k) ==
    IF k <= N /\ N >= 0 /\ k >= 0
    THEN Factorial(N) \div (Factorial(k) * Factorial(N - k))
    ELSE 0

\* scipy.special.perm(N, k): N! / (N-k)!, and 0 when k > N, N < 0 or k < 0.
perm(N, k) ==
    IF k <= N /\ N >= 0 /\ k >= 0
    THEN Factorial(N) \div Factorial(N - k)
    ELSE 0

\* Gaussian-valued scalars: [c, e] is c * exp(e).
GOne == [c |-> 1, e |-> 0]
GExp(t) == [c |-> 1, e |-> t]
GNorm(g) == IF g.c = 0 THEN [c |-> 0, e |-> 0] ELSE g
GMul(g, h) == GNorm([c |-> g.c * h.c, e |-> g.e + h.e])
IntMulG(k, g) == GNorm([c |-> k * g.c, e |-> g.e])
GMulInt(g, k) == GNorm([c |-> g.c * k, e |-> g.e])

\* Formal sums of Gaussian-valued scalars: exponent -> nonzero coefficient.
FZero == [e \in {} |-> 0]
FAdd(f, g) ==
    LET coef(e) == (IF e \in DOMAIN f THEN f[e] ELSE 0) + (IF e \in DOMAIN g THEN g[e] ELSE 0)
        es == {e \in (DOMAIN f) \cup (DOMAIN g) : coef(e) # 0}
    IN  [e \in es |-> coef(e)]
FOfG(g) == IF g.c = 0 THEN FZero ELSE [e \in {g.e} |-> g.c]

(***************************************************************************)
(* Arrays.  An ndarray is [shape, data, err, base, ix]: data maps each     *)
(* index tuple (0-based entries) to its element; err is the exception the  *)
(* expression raised ("" when none); base names the caller's array the     *)
(* ndarray is a view of ("" for memory allocated inside the call) and ix   *)
(* maps each index of the view to the index of base it aliases.            *)
(***************************************************************************)
Raise(msg) == [shape |-> <<>>, data |-> <<>>, err |-> msg, base |-> "", ix |-> <<>>]
IsErr(A) == A.err # ""

Front(s) == SubSeq(s, 1, Len(s) - 1)
Last(s) == s[Len(s)]

RECURSIVE Indices(_)
Indices(shape) ==
    IF Len(shape) = 0 THEN {<<>>}
    ELSE {Append(p, i) : p \in Indices(Front(shape)), i \in 0..(Last(shape) - 1)}

\* ndarray.size
Size(A) == Cardinality(DOMAIN A.data)

\* A newly allocated array holding data.
Arr(shape, data) == [shape |-> shape, data |-> data, err |-> "", base |-> "", ix |-> <<>>]

\* A view of A: element i of the view is element src[i] of A's memory.
View(A, shape, src) ==
    [shape |-> shape, data |-> [i \in Indices(shape) |-> A.data[src[i]]], err |-> "",
     base |-> A.base,
     ix |-> IF A.base = "" THEN <<>> ELSE [i \in Indices(shape) |-> A.ix[src[i]]]]

\* The caller's array `name`, holding the sequence v (1-D) or the rows v (2-D).
Array1(name, v) ==
    [shape |-> <<Len(v)>>, data |-> [i \in Indices(<<Len(v)>>) |-> v[i[1] + 1]], err |-> "",
     base |-> name, ix |-> [i \in Indices(<<Len(v)>>) |-> i]]
Array2(name, v) ==
    [shape |-> <<Len(v), Len(v[1])>>,
     data |-> [i \in Indices(<<Len(v), Len(v[1])>>) |-> v[i[1] + 1][i[2] + 1]],
     err |-> "", base |-> name,
     ix |-> [i \in Indices(<<Len(v), Len(v[1])>>) |-> i]]

\* A Python number (int or float) passed where an array is expected.
PyScalar(x) == [py |-> x]
IsPyScalar(v) == "py" \in DOMAIN v
\* np.array([x]).
ArrayOfScalar(x) == Arr(<<1>>, [i \in Indices(<<1>>) |-> x])
\* A Python number used as an operand of an array expression.
Scalar(x) == Arr(<<>>, [i \in Indices(<<>>) |-> x])

(***************************************************************************)
(* Broadcasting (numpy): shapes are aligned at their last axes, a missing  *)
(* or 1-sized axis stretches, any other disagreement raises ValueError.    *)
(***************************************************************************)
BPad(s, n) == [i \in 1..n |-> IF i <= n - Len(s) THEN 1 ELSE s[i - (n - Len(s))]]

BCompat(s1, s2) ==
    LET n == Max2(Len(s1), Len(s2))
        p1 == BPad(s1, n)
        p2 == BPad(s2, n)
    IN  \A i \in 1..n : p1[i] = p2[i] \/ p1[i] = 1 \/ p2[i] = 1

BShape(s1, s2) ==
    LET n == Max2(Len(s1), Len(s2))
        p1 == BPad(s1, n)
        p2 == BPad(s2, n)
    IN  [i \in 1..n |-> IF p1[i] = 1 THEN p2[i] ELSE p1[i]]

BIndex(idx, s) ==
    LET n == Len(idx)
        k == Len(s)
    IN  [j \in 1..k |-> IF s[j] = 1 THEN 0 ELSE idx[n - k + j]]

\* The elementwise binary operations the code uses.
BinOp(op, a, b) ==
    CASE op = "sub" -> a - b
      [] op = "add" -> a + b
      [] op = "mul" -> a * b
      [] op = "pow" -> Pow(a, b)
      [] op = "less" -> a < b
      [] op = "maximum" -> Max2(a, b)
      [] op = "comb" -> comb(a, b)
      [] op = "perm" -> perm(a, b)
      [] op = "int*gauss" -> IntMulG(a, b)
      [] op = "gauss*int" -> GMulInt(a, b)
      [] op = "gauss*gauss" -> GMul(a, b)

Broadcast(op, A, B) ==
    IF IsErr(A) THEN A
    ELSE IF IsErr(B) THEN B
    ELSE IF ~BCompat(A.shape, B.shape)
    THEN Raise("ValueError: operands could not be broadcast together")
    ELSE Arr(BShape(A.shape, B.shape),
             [i \in Indices(BShape(A.shape, B.shape)) |->
                 BinOp(op, A.data[BIndex(i, A.shape)], B.data[BIndex(i, B.shape)])])

\* The elementwise unary operations the code uses.
UnOp(op, a) ==
    CASE op = "neg" -> 0 - a
      [] op = "sqrt" -> Sqrt(a)
      [] op = "exp" -> GExp(a)
      [] op = "le0" -> a <= 0
      [] op = "not" -> ~a

Map(op, A) ==
    IF IsErr(A) THEN A ELSE Arr(A.shape, [i \in Indices(A.shape) |-> UnOp(op, A.data[i])])

(***************************************************************************)
(* Basic indexing A[e1, e2, ...] with np.newaxis, ":" and integers: a view.*)
(***************************************************************************)
NEWAXIS == [k |-> "newaxis"]
ALL == [k |-> "slice"]
At(i) == [k |-> "int", i |-> i]

\* The index expression completed with ":" for the axes it does not name.
FullIndex(spec, ndim) ==
    LET used == Cardinality({p \in 1..Len(spec) : spec[p].k # "newaxis"})
    IN  spec \o [p \in 1..(ndim - used) |-> ALL]

\* The axis of A that entry p of the (full) index expression consumes.
SrcAxis(full, p) == Cardinality({q \in 1..p : full[q].k # "newaxis"})

BasicIndex(A, spec) ==
    IF IsErr(A) THEN A
    ELSE IF Cardinality({p \in 1..Len(spec) : spec[p].k # "newaxis"}) > Len(A.shape)
    THEN Raise("IndexError: too many indices for array")
    ELSE
      LET full == FullIndex(spec, Len(A.shape))
          outs == SelectSeq([p \in 1..Len(full) |-> p], LAMBDA p : full[p].k # "int")
          shape == [o \in 1..Len(outs) |->
                      IF full[outs[o]].k = "newaxis" THEN 1
                      ELSE A.shape[SrcAxis(full, outs[o])]]
          \* the entry of the index expression that consumes axis a of A
          entry(a) == CHOOSE p \in 1..Len(full) :
                         full[p].k # "newaxis" /\ SrcAxis(full, p) = a
          \* the output axis made by entry p
          out(p) == CHOOSE o \in 1..Len(outs) : outs[o] = p
          src == [i \in Indices(shape) |->
                    [a \in 1..Len(A.shape) |->
                        IF full[entry(a)].k = "int" THEN full[entry(a)].i
                        ELSE i[out(entry(a))]]]
      IN  IF \E p \in 1..Len(full) :
                full[p].k = "int" /\ ~(full[p].i \in 0..(A.shape[SrcAxis(full, p)] - 1))
          THEN Raise("IndexError: index out of bounds")
          ELSE View(A, shape, src)

\* A.T: a view with the axes reversed.
Reverse(s) == [i \in 1..Len(s) |-> s[Len(s) + 1 - i]]
Transpose(A) ==
    IF IsErr(A) THEN A
    ELSE View(A, Reverse(A.shape), [i \in Indices(Reverse(A.shape)) |-> Reverse(i)])

(***************************************************************************)
(* Boolean-mask indexing A[:, ..., mask] on axis ax (1-based): a copy that *)
(* keeps the positions of the axis where the 1-D mask is True.             *)
(***************************************************************************)
MaskAxis(A, ax, mask) ==
    IF IsErr(A) THEN A
    ELSE IF IsErr(mask) THEN mask
    ELSE IF ax > Len(A.shape) THEN Raise("IndexError: too many indices for array")
    ELSE IF A.shape[ax] # mask.shape[1]
    THEN Raise("IndexError: boolean index did not match indexed array")
    ELSE
      LET sel == SelectSeq([p \in 1..mask.shape[1] |-> p - 1], LAMBDA p : mask.data[<<p>>])
          shape == [A.shape EXCEPT ![ax] = Len(sel)]
      IN  Arr(shape, [i \in Indices(shape) |-> A.data[[i EXCEPT ![ax] = sel[i[ax] + 1]]]])

(***************************************************************************)
(* Reductions.                                                             *)
(***************************************************************************)
\* The product (empty product 1) of f over the set S; kind is "int" or "gauss".
RECURSIVE ProdOver(_, _, _)
ProdOver(kind, f, S) ==
    IF S = {} THEN (IF kind = "int" THEN 1 ELSE GOne)
    ELSE LET x == CHOOSE x \in S : TRUE
         IN  IF kind = "int" THEN f[x] * ProdOver(kind, f, S \ {x})
             ELSE GMul(f[x], ProdOver(kind, f, S \ {x}))

\* The index of A made of index i of the kept axes and index r of the reduced axes.
Merge(ndim, axes, i, r) ==
    [a \in 1..ndim |->
        IF a \in axes THEN r[Cardinality({b \in axes : b <= a})]
        ELSE i[a - Cardinality({b \in axes : b <= a})]]

\* np.prod(A, axis=axes), axes a set of 1-based axes.
ProdAxes(kind, A, axes) ==
    IF IsErr(A) THEN A
    ELSE IF \E a \in axes : a > Len(A.shape)
    THEN Raise("AxisError: axis is out of bounds for array")
    ELSE
      LET ndim == Len(A.shape)
          kept == SelectSeq([a \in 1..ndim |-> a], LAMBDA a : a \notin axes)
          red == SelectSeq([a \in 1..ndim |-> a], LAMBDA a : a \in axes)
          shape == [o \in 1..Len(kept) |-> A.shape[kept[o]]]
          rshape == [o \in 1..Len(red) |-> A.shape[red[o]]]
      IN  Arr(shape, [i \in Indices(shape) |->
                  ProdOver(kind, [r \in Indices(rshape) |-> A.data[Merge(ndim, axes, i, r)]],
                           Indices(rshape))])

\* The sum of the Gaussian-valued f over the set S, as a formal sum.
RECURSIVE SumOver(_, _)
SumOver(f, S) ==
    IF S = {} THEN FZero
    ELSE LET x == CHOOSE x \in S : TRUE
         IN  FAdd(FOfG(f[x]), SumOver(f, S \ {x}))

\* np.sum(A, axis=0).
SumAxis0(A) ==
    IF IsErr(A) THEN A
    ELSE IF Len(A.shape) = 0 THEN Raise("AxisError: axis 0 is out of bounds for array")
    ELSE
      LET shape == SubSeq(A.shape, 2, Len(A.shape))
      IN  Arr(shape, [i \in Indices(shape) |->
                  SumOver([r \in 0..(A.shape[1] - 1) |-> A.data[<<r>> \o i]],
                          0..(A.shape[1] - 1))])

\* np.max(A) of a non-empty integer array.
ArrayMax(A) == CHOOSE m \in {A.data[i] : i \in DOMAIN A.data} :
                   \A i \in DOMAIN A.data : A.data[i] <= m

\* np.arange(n).
arange(n) == Arr(<<n>>, [i \in Indices(<<n>>) |-> i[1]])

\* np.zeros(shape).
zeros(shape) == Arr(shape, [i \in Indices(shape) |-> 0])

\* np.where(C): the indices at which the boolean array C is True.
Where(C) == {i \in DOMAIN C.data : C.data[i]}

(***************************************************************************)
(* In-place writes.  They change the array written and, when it is a view  *)
(* of one of the caller's arrays, that array's memory too.                 *)
(***************************************************************************)
\* A[A < 0] = 0
ClampNegative(A) ==
    IF IsErr(A) THEN A
    ELSE [A EXCEPT !.data = [i \in DOMAIN A.data |-> IF A.data[i] < 0 THEN 0 ELSE A.data[i]]]

\* A[m[a1], :, m[a2], ...] = 0 for the index tuples m of `matches`: the index
\* expression has nidx entries, and axis a of A is indexed by component a of m
\* for a in axs (the other entries are ":").
AssignZero(A, nidx, axs, matches) ==
    IF IsErr(A) THEN A
    ELSE IF nidx > Len(A.shape) THEN Raise("IndexError: too many indices for array")
    ELSE IF \E m \in matches : \E a \in axs : m[a] >= A.shape[a]
    THEN Raise("IndexError: index is out of bounds for axis")
    ELSE [A EXCEPT !.data =
            [i \in DOMAIN A.data |->
                IF \E m \in matches : \A a \in axs : i[a] = m[a] THEN 0 ELSE A.data[i]]]

\* The caller's memory after the in-place write that left A.
Store(mem, A) ==
    IF IsErr(A) \/ A.base = "" THEN mem
    ELSE [mem EXCEPT ![A.base].data =
            [j \in DOMAIN @ |->
                IF \E i \in DOMAIN A.ix : A.ix[i] = j
                THEN A.data[CHOOSE i \in DOMAIN A.ix : A.ix[i] = j]
                ELSE @[j]]]

(***************************************************************************)
(* np.polynomial.hermite.hermval(x, c): the series sum_h c[h] * H_h(x) in  *)
(* the physicists' Hermite polynomials, by Clenshaw's recursion; the       *)
(* result has shape c.shape[1:] + x.shape.                                 *)
(***************************************************************************)
RECURSIVE Clenshaw(_, _, _, _, _, _)
Clenshaw(cs, x2, i, nd, c0, c1) ==
    IF i > Len(cs) THEN c0 + c1 * x2
    ELSE Clenshaw(cs, x2, i + 1, nd - 1,
                  cs[Len(cs) - i + 1] - c1 * (2 * (nd - 2)), c0 + c1 * x2)

\* np.polynomial.hermite_e.hermeval: the same series in the probabilists' Hermite
\* polynomials.
RECURSIVE ClenshawE(_, _, _, _, _, _)
ClenshawE(cs, x, i, nd, c0, c1) ==
    IF i > Len(cs) THEN c0 + c1 * x
    ELSE ClenshawE(cs, x, i + 1, nd - 1, cs[Len(cs) - i + 1] - c1 * (nd - 2), c0 + c1 * x)

hermeval_scalar(x, cs) ==
    IF Len(cs) = 1 THEN cs[1] + 0 * x
    ELSE IF Len(cs) = 2 THEN cs[1] + cs[2] * x
    ELSE ClenshawE(cs, x, 3, Len(cs), cs[Len(cs) - 1], cs[Len(cs)])

hermval_scalar(x, cs) ==
    IF Len(cs) = 1 THEN cs[1] + 0 * (x * 2)
    ELSE IF Len(cs) = 2 THEN cs[1] + cs[2] * (x * 2)
    ELSE Clenshaw(cs, x * 2, 3, Len(cs), cs[Len(cs) - 1], cs[Len(cs)])

hermval(x, c) ==
    IF IsErr(x) THEN x
    ELSE IF IsErr(c) THEN c
    ELSE IF c.shape[1] = 0
    THEN Raise("IndexError: index -2 is out of bounds for axis 0 with size 0")
    ELSE
      LET rest == SubSeq(c.shape, 2, Len(c.shape))
          shape == rest \o x.shape
      IN  Arr(shape, [i \in Indices(shape) |->
                  hermval_scalar(x.data[SubSeq(i, Len(rest) + 1, Len(i))],
                                 [h \in 1..c.shape[1] |->
                                     c.data[<<h - 1>> \o SubSeq(i, 1, Len(rest))]])])

(***************************************************************************)
(* eval_deriv_contraction, statement by statement.  A stage takes and      *)
(* returns s = [mem, loc]: mem holds the caller's arrays, loc the local     *)
(* names of the call; loc.exc is the exception raised ("" when none).      *)
(***************************************************************************)
Unbound == Raise("UnboundLocalError")

\* The exception of the first statement that raised, "" when none did.
FirstErr(vals) ==
    IF \E p \in 1..Len(vals) : IsErr(vals[p])
    THEN vals[CHOOSE p \in 1..Len(vals) :
                 IsErr(vals[p]) /\ \A q \in 1..(p - 1) : ~IsErr(vals[q])].err
    ELSE ""

\* The local names at entry: the parameters are bound to the arguments.
Bind(coord, orders, center, angmom_comps, alphas, prim_coeffs) ==
    [coord |-> coord, orders |-> orders, center |-> center,
     angmom_comps |-> angmom_comps, alphas |-> alphas, prim_coeffs |-> prim_coeffs,
     rel_coord |-> Unbound, gauss |-> Unbound, indices_noderiv |-> Unbound,
     zeroth_part |-> Unbound, deriv_part |-> Unbound,
     nonzero_rel_coord |-> Unbound, nonzero_orders |-> Unbound,
     nonzero_angmom_comps |-> Unbound, nonzero_gauss |-> Unbound,
     indices_herm |-> Unbound, indices_angmom |-> Unbound, coeffs |-> Unbound,
     hermite |-> Unbound, exc |-> ""]

\* Lines 36-43: wrap scalar primitives, make angmom_comps two-dimensional.
wrap_scalars(s) ==
    LET l == s.loc
        alphas == IF IsPyScalar(l.alphas) THEN ArrayOfScalar(l.alphas.py) ELSE l.alphas
        prim_coeffs == IF IsPyScalar(l.prim_coeffs) THEN ArrayOfScalar(l.prim_coeffs.py)
                       ELSE l.prim_coeffs
        angmom_comps == IF Len(l.angmom_comps.shape) = 1
                        THEN BasicIndex(l.angmom_comps, <<NEWAXIS, ALL>>)
                        ELSE l.angmom_comps
    IN  [s EXCEPT !.loc = [l EXCEPT !.alphas = alphas, !.prim_coeffs = prim_coeffs,
                                    !.angmom_comps = angmom_comps,
                                    !.exc = FirstErr(<<alphas, prim_coeffs, angmom_comps>>)]]

\* Lines 53-61: insert the axes (hermite term, primitive, dimension, angmom, point).
adjust_axes(s) ==
    LET l == s.loc
        coord == BasicIndex(l.coord, <<NEWAXIS, NEWAXIS, ALL, NEWAXIS>>)
        center == BasicIndex(l.center, <<NEWAXIS, NEWAXIS, ALL, NEWAXIS>>)
        angmom_comps == BasicIndex(Transpose(l.angmom_comps), <<NEWAXIS, NEWAXIS, ALL, ALL>>)
        alphas == BasicIndex(l.alphas, <<NEWAXIS, ALL, NEWAXIS, NEWAXIS>>)
    IN  [s EXCEPT !.loc = [l EXCEPT !.coord = coord, !.center = center,
                                    !.angmom_comps = angmom_comps, !.alphas = alphas,
                                    !.exc = FirstErr(<<coord, center, angmom_comps, alphas>>)]]

\* Lines 65-66: rel_coord = coord - center; gauss = np.exp(-alphas * rel_coord ** 2).
gaussian_core(s) ==
    LET l == s.loc
        rel_coord == Broadcast("sub", l.coord, l.center)
        gauss == Map("exp", Broadcast("mul", Map("neg", l.alphas),
                                      Broadcast("pow", rel_coord, Scalar(2))))
    IN  [s EXCEPT !.loc = [l EXCEPT !.rel_coord = rel_coord, !.gauss = gauss,
                                    !.exc = FirstErr(<<rel_coord, gauss>>)]]

\* The mask of the orders that are exactly 0.
IndicesZeroOrder(orders) ==
    IF IsErr(orders) THEN orders
    ELSE Arr(orders.shape, [i \in Indices(orders.shape) |-> orders.data[i] = 0])

\* Line 69: indices_noderiv = orders <= 0.
IndicesNoderiv(orders) == Map("le0", orders)

\* Lines 69-75: the zeroth-order part.
zeroth_order(s) ==
    LET l == s.loc
        indices_noderiv == IndicesNoderiv(l.orders)
        zero_rel_coord == MaskAxis(l.rel_coord, 3, indices_noderiv)
        zero_angmom_comps == MaskAxis(l.angmom_comps, 3, indices_noderiv)
        zero_gauss == MaskAxis(l.gauss, 3, indices_noderiv)
        zeroth_part == ProdAxes("gauss",
                           Broadcast("int*gauss",
                               Broadcast("pow", zero_rel_coord, zero_angmom_comps),
                               zero_gauss),
                           {1, 3})
    IN  [s EXCEPT !.loc = [l EXCEPT !.indices_noderiv = indices_noderiv,
                                    !.zeroth_part = zeroth_part,
                                    !.exc = FirstErr(<<indices_noderiv, zero_rel_coord,
                                                       zero_angmom_comps, zero_gauss,
                                                       zeroth_part>>)]]

\* Lines 79-86: deriv_part = 1 and the arrays of the dimensions with a positive order.
split_nonzero(s) ==
    LET l == s.loc
        notmask == Map("not", l.indices_noderiv)
        nonzero_rel_coord == MaskAxis(l.rel_coord, 3, notmask)
        nonzero_orders == MaskAxis(l.orders, 1, notmask)
        nonzero_angmom_comps == MaskAxis(l.angmom_comps, 3, notmask)
        nonzero_gauss == MaskAxis(l.gauss, 3, notmask)
        nonzero_orders4 == BasicIndex(nonzero_orders, <<NEWAXIS, NEWAXIS, ALL, NEWAXIS>>)
    IN  [s EXCEPT !.loc = [l EXCEPT !.deriv_part = Scalar(GOne),
                                    !.nonzero_rel_coord = nonzero_rel_coord,
                                    !.nonzero_orders = nonzero_orders4,
                                    !.nonzero_angmom_comps = nonzero_angmom_comps,
                                    !.nonzero_gauss = nonzero_gauss,
                                    !.exc = FirstErr(<<nonzero_rel_coord, nonzero_orders,
                                                       nonzero_angmom_comps, nonzero_gauss,
                                                       nonzero_orders4>>)]]

\* Line 89: if nonzero_orders.size != 0.
HasDerivative(l) == Size(l.nonzero_orders) # 0

\* The Hermite indices up to the smallest of the positive orders.
ArrayMin(A) == CHOOSE m \in {A.data[i] : i \in DOMAIN A.data} :
                   \A i \in DOMAIN A.data : m <= A.data[i]
IndicesHermToMin(nonzero_orders) ==
    BasicIndex(arange(ArrayMin(nonzero_orders) + 1), <<ALL, NEWAXIS, NEWAXIS, NEWAXIS>>)

\* Line 94: indices_herm = np.arange(np.max(nonzero_orders) + 1)[:, newaxis, newaxis, newaxis].
IndicesHerm(nonzero_orders) ==
    BasicIndex(arange(ArrayMax(nonzero_orders) + 1), <<ALL, NEWAXIS, NEWAXIS, NEWAXIS>>)

\* Line 99: indices_angmom = nonzero_angmom_comps - nonzero_orders + indices_herm (a new array).
IndicesAngmom(nonzero_angmom_comps, nonzero_orders, indices_herm) ==
    Broadcast("add", Broadcast("sub", nonzero_angmom_comps, nonzero_orders), indices_herm)

\* Lines 94-100 with the negative orders clamped as well, in place in `orders`.
hermite_indices_clamping_orders(s) ==
    LET l == s.loc
        orders == ClampNegative(l.orders)
        indices_herm == IndicesHerm(l.nonzero_orders)
        indices_angmom == ClampNegative(
                              IndicesAngmom(l.nonzero_angmom_comps, l.nonzero_orders,
                                            indices_herm))
    IN  [mem |-> Store(Store(s.mem, orders), indices_angmom),
         loc |-> [l EXCEPT !.orders = orders,
                           !.indices_herm = indices_herm,
                           !.indices_angmom = indices_angmom,
                           !.exc = FirstErr(<<indices_herm, indices_angmom>>)]]

\* Lines 94-100: the Hermite indices and the powers of rel_coord, clamped at 0 in place.
hermite_indices(s) ==
    LET l == s.loc
        indices_herm == IndicesHerm(l.nonzero_orders)
        indices_angmom == ClampNegative(
                              IndicesAngmom(l.nonzero_angmom_comps, l.nonzero_orders,
                                            indices_herm))
    IN  [mem |-> Store(s.mem, indices_angmom),
         loc |-> [l EXCEPT !.indices_herm = indices_herm,
                           !.indices_angmom = indices_angmom,
                           !.exc = FirstErr(<<indices_herm, indices_angmom>>)]]

\* Lines 102-107: the coefficient of every Hermite term.
Coeffs(l) ==
    Broadcast("mul",
        Broadcast("mul",
            Broadcast("mul",
                Broadcast("comb", l.nonzero_orders, l.indices_herm),
                Broadcast("perm", l.nonzero_angmom_comps,
                          Broadcast("sub", l.nonzero_orders, l.indices_herm))),
            Broadcast("pow", Map("neg", Map("sqrt", l.alphas)), l.indices_herm)),
        Broadcast("pow", l.nonzero_rel_coord, l.indices_angmom))

all_coeffs(s) ==
    LET l == s.loc
        coeffs == Coeffs(l)
    IN  [s EXCEPT !.loc = [l EXCEPT !.coeffs = coeffs, !.exc = FirstErr(<<coeffs>>)]]

\* Lines 109-110: zero the terms with h < max(0, n - m).
ZeroBelow(l) ==
    AssignZero(l.coeffs, 4, {1, 3, 4},
        Where(Broadcast("less", l.indices_herm,
                  Broadcast("maximum", Scalar(0),
                      Broadcast("sub", l.nonzero_orders, l.nonzero_angmom_comps)))))

zero_below(s) ==
    LET l == s.loc
        coeffs == ZeroBelow(l)
    IN  [mem |-> Store(s.mem, coeffs),
         loc |-> [l EXCEPT !.coeffs = coeffs, !.exc = FirstErr(<<coeffs>>)]]

\* The second pass zeroing the whole Hermite row: coeffs[indices_zero[0]] = 0.
ZeroAboveWholeRow(l) ==
    AssignZero(l.coeffs, 1, {1}, Where(Broadcast("less", l.nonzero_orders, l.indices_herm)))

\* Lines 111-112: zero the terms with h > n.
ZeroAbove(l) ==
    AssignZero(l.coeffs, 3, {1, 3}, Where(Broadcast("less", l.nonzero_orders, l.indices_herm)))

zero_above(s) ==
    LET l == s.loc
        coeffs == ZeroAbove(l)
    IN  [mem |-> Store(s.mem, coeffs),
         loc |-> [l EXCEPT !.coeffs = coeffs, !.exc = FirstErr(<<coeffs>>)]]

\* Lines 122-125: the Hermite series of dimension j, primitive i, angmom vector k.
HermiteEntry(l, j, i, k) ==
    hermval(Broadcast("mul",
                Map("sqrt", BasicIndex(l.alphas, <<ALL, At(i), At(0), At(0)>>)),
                BasicIndex(l.nonzero_rel_coord, <<ALL, At(0), At(j), At(0)>>)),
            BasicIndex(l.coeffs, <<ALL, At(i), At(j), At(k)>>))

\* Lines 118-141: np.prod of the nested list of Hermite series over axes (0, 3).
Hermite(l) ==
    LET outer == <<l.nonzero_rel_coord.shape[3], l.alphas.shape[2],
                   l.nonzero_angmom_comps.shape[4]>>
        entries == [t \in Indices(outer) |-> HermiteEntry(l, t[1], t[2], t[3])]
        first == entries[<<0, 0, 0>>]
        stacked == Arr(outer \o first.shape,
                       [i \in Indices(outer \o first.shape) |->
                           entries[SubSeq(i, 1, 3)].data[SubSeq(i, 4, Len(i))]])
    IN  IF \E t \in Indices(outer) : IsErr(entries[t])
        THEN Raise(entries[CHOOSE t \in Indices(outer) : IsErr(entries[t])].err)
        ELSE ProdAxes("int", stacked, {1, 4})

\* The Hermite part times the Gaussian factors of all three dimensions.
DerivPartAllGauss(l, hermite) ==
    Broadcast("gauss*int", ProdAxes("gauss", l.gauss, {1, 3}), hermite)

\* Line 143: deriv_part = np.prod(nonzero_gauss, axis=(0, 2)) * hermite.
DerivPart(l, hermite) ==
    Broadcast("gauss*int", ProdAxes("gauss", l.nonzero_gauss, {1, 3}), hermite)

\* Lines 118-143.
hermite_part(s) ==
    LET l == s.loc
        hermite == Hermite(l)
        deriv_part == DerivPart(l, hermite)
    IN  [s EXCEPT !.loc = [l EXCEPT !.hermite = hermite, !.deriv_part = deriv_part,
                                    !.exc = FirstErr(<<hermite, deriv_part>>)]]

\* Lines 145-146: the contraction over the primitives.
Contract(l) ==
    SumAxis0(Broadcast("gauss*gauss",
                 Broadcast("int*gauss", BasicIndex(l.prim_coeffs, <<ALL, NEWAXIS>>),
                           l.zeroth_part),
                 l.deriv_part))

\* The whole body from a state at entry: [mem, ret], ret the array returned or the
\* exception raised.
Body(s0) ==
    LET s1 == wrap_scalars(s0)
        s2 == IF s1.loc.exc # "" THEN s1 ELSE adjust_axes(s1)
        s3 == IF s2.loc.exc # "" THEN s2 ELSE gaussian_core(s2)
        s4 == IF s3.loc.exc # "" THEN s3 ELSE zeroth_order(s3)
        s5 == IF s4.loc.exc # "" THEN s4 ELSE split_nonzero(s4)
        d == s5.loc.exc = "" /\ HasDerivative(s5.loc)
        s6 == IF d THEN hermite_indices(s5) ELSE s5
        s7 == IF d /\ s6.loc.exc = "" THEN all_coeffs(s6) ELSE s6
        s8 == IF d /\ s7.loc.exc = "" THEN zero_below(s7) ELSE s7
        s9 == IF d /\ s8.loc.exc = "" THEN zero_above(s8) ELSE s8
        s10 == IF d /\ s9.loc.exc = "" THEN hermite_part(s9) ELSE s9
    IN  [mem |-> s10.mem,
         ret |-> IF s10.loc.exc # "" THEN Raise(s10.loc.exc) ELSE Contract(s10.loc)]

(***************************************************************************)
(* The program as a state machine: a caller invokes one of the four        *)
(* functions of the module on arrays it owns, the body runs statement by   *)
(* statement, and the call returns or raises.                              *)
(***************************************************************************)
VARIABLES
    pc,      \* the statement about to run ("idle" before the call, "returned" or
             \* "raised" after it)
    fn,      \* the function the caller invoked
    mem,     \* the caller's arrays (the memory the arguments point to)
    mem0,    \* the caller's arrays as they were when the call was made
    loc,     \* the local names of eval_deriv_contraction
    result   \* what the call returned, or the exception it raised

vars == <<pc, fn, mem, mem0, loc, result>>

(***************************************************************************)
(* The inputs the callers draw from.                                       *)
(***************************************************************************)
Center == <<1, 0, -1>>
PointList == <<<<1, 2, -2>>, <<2, 0, -2>>>>
AlphaList == <<1, 4>>

\* The point the callers that pass a single point pass: at the center in x, away
\* from it in y (above) and z (below).
Point == PointList[1]
\* N points as the (3, N) array the docstring asks for.
Grid(N) == [d \in 1..3 |-> [n \in 1..N |-> PointList[((n - 1) % Len(PointList)) + 1][d]]]

OrderVectors == [1..3 -> (-1)..MaxOrder]
\* The orders the contraction callers pass: the shells hold every component of a
\* dimension, so the orders are taken up to a permutation of the dimensions.
ShellOrders == {o \in OrderVectors : o[1] >= o[2] /\ o[2] >= o[3]}
AngmomVectors == {v \in [1..3 -> 0..MaxAngmom] : v[1] + v[2] + v[3] <= MaxAngmom}

\* The Cartesian components of the shell of angular momentum l, x descending, then y.
Shell(l) ==
    SelectSeq([t \in 1..((l + 1) * (l + 1)) |->
                  <<l - ((t - 1) \div (l + 1)),
                    l - ((t - 1) % (l + 1)),
                    ((t - 1) \div (l + 1)) + ((t - 1) % (l + 1)) - l>>],
              LAMBDA v : v[3] >= 0)

\* K exponents, cycling through the list.
AlphaSeq(K) == [k \in 1..K |-> AlphaList[((k - 1) % Len(AlphaList)) + 1]]
\* K contraction coefficients.
CoeffSeq(K) == [k \in 1..K |-> k + 1]

CoordArrays ==
    {Array1("coord", Point)} \cup {Array2("coord", Grid(N)) : N \in 1..Len(PointList)}
OrderArrays == {Array1("orders", o) : o \in OrderVectors}
ShellOrderArrays == {Array1("orders", o) : o \in ShellOrders}
ShellArrays == {Array2("angmom_comps", Shell(l)) : l \in 0..MaxAngmom}
AlphaArrays ==
    {PyScalar(AlphaList[Len(AlphaList)])} \cup {Array1("alphas", AlphaSeq(K)) : K \in 1..Len(AlphaList)}
CoeffArrays == {Array1("prim_coeffs", CoeffSeq(K)) : K \in 1..Len(AlphaList)}

\* The caller's memory before and after a call.
NoArrays ==
    [coord |-> Unbound, orders |-> Unbound, center |-> Unbound,
     angmom_comps |-> Unbound, alphas |-> Unbound, prim_coeffs |-> Unbound]

\* The arguments eval_deriv_contraction (line 9) receives when the caller invokes f
\* on the arrays of m: eval_contraction (line 181) passes np.zeros(center.shape) as
\* the orders, eval_deriv_prim (line 214) the coefficient 1, and eval_prim (line
\* 244) np.zeros(angmom_comps.shape) to eval_deriv_prim.
Entry(f, m) ==
    Bind(m.coord,
         IF f = "eval_contraction" THEN zeros(m.center.shape)
         ELSE IF f = "eval_prim" THEN zeros(m.angmom_comps.shape)
         ELSE m.orders,
         m.center, m.angmom_comps, m.alphas,
         IF f \in {"eval_deriv_prim", "eval_prim"} THEN PyScalar(1) ELSE m.prim_coeffs)

Init ==
    /\ pc = "idle"
    /\ fn = "none"
    /\ mem = NoArrays
    /\ mem0 = NoArrays
    /\ loc = Entry("none", NoArrays)
    /\ result = Unbound

Enter(f, m) ==
    /\ fn' = f
    /\ mem' = m
    /\ mem0' = m
    /\ loc' = Entry(f, m)
    /\ result' = Unbound
    /\ pc' = "L36"

Call_eval_deriv_contraction ==
    /\ pc = "idle"
    /\ \E coord \in CoordArrays, orders \in ShellOrderArrays, angmom_comps \in ShellArrays,
          alphas \in AlphaArrays, prim_coeffs \in CoeffArrays :
           Enter("eval_deriv_contraction",
                 [coord |-> coord, orders |-> orders, center |-> Array1("center", Center),
                  angmom_comps |-> angmom_comps, alphas |-> alphas,
                  prim_coeffs |-> prim_coeffs])

Call_eval_contraction ==
    /\ pc = "idle"
    /\ \E coord \in CoordArrays, angmom_comps \in ShellArrays,
          alphas \in AlphaArrays, coeffs \in CoeffArrays :
           Enter("eval_contraction",
                 [NoArrays EXCEPT !.coord = coord, !.center = Array1("center", Center),
                                  !.angmom_comps = angmom_comps, !.alphas = alphas,
                                  !.prim_coeffs = coeffs])

Call_eval_deriv_prim ==
    /\ pc = "idle"
    /\ \E orders \in OrderArrays, v \in AngmomVectors, a \in 1..Len(AlphaList) :
           Enter("eval_deriv_prim",
                 [NoArrays EXCEPT !.coord = Array1("coord", Point), !.orders = orders,
                                  !.center = Array1("center", Center),
                                  !.angmom_comps = Array1("angmom_comps", v),
                                  !.alphas = PyScalar(AlphaList[a])])

Call_eval_prim ==
    /\ pc = "idle"
    /\ \E v \in AngmomVectors, a \in 1..Len(AlphaList) :
           Enter("eval_prim",
                 [NoArrays EXCEPT !.coord = Array1("coord", Point),
                                  !.center = Array1("center", Center),
                                  !.angmom_comps = Array1("angmom_comps", v),
                                  !.alphas = PyScalar(AlphaList[a])])

\* One stage of the body ran: go on at `to`, or raise.
Ran(s, to) ==
    /\ mem' = s.mem
    /\ loc' = s.loc
    /\ pc' = IF s.loc.exc # "" THEN "raised" ELSE to
    /\ result' = IF s.loc.exc # "" THEN Raise(s.loc.exc) ELSE result
    /\ UNCHANGED <<fn, mem0>>

Here == [mem |-> mem, loc |-> loc]

WrapScalars ==
    /\ pc = "L36"
    /\ Ran(wrap_scalars(Here), "L53")
AdjustAxes ==
    /\ pc = "L53"
    /\ Ran(adjust_axes(Here), "L65")
GaussianCore ==
    /\ pc = "L65"
    /\ Ran(gaussian_core(Here), "L69")
ZerothOrder ==
    /\ pc = "L69"
    /\ Ran(zeroth_order(Here), "L79")
SplitNonzero ==
    /\ pc = "L79"
    /\ LET s == split_nonzero(Here)
       IN  Ran(s, IF s.loc.exc = "" /\ HasDerivative(s.loc) THEN "L94" ELSE "L145")
HermiteIndices ==
    /\ pc = "L94"
    /\ Ran(hermite_indices(Here), "L102")
AllCoeffs ==
    /\ pc = "L102"
    /\ Ran(all_coeffs(Here), "L109")
ZeroBelowPass ==
    /\ pc = "L109"
    /\ Ran(zero_below(Here), "L111")
ZeroAbovePass ==
    /\ pc = "L111"
    /\ Ran(zero_above(Here), "L118")
HermitePart ==
    /\ pc = "L118"
    /\ Ran(hermite_part(Here), "L145")

\* Lines 145-146: the value of the return expression.
ContractSum ==
    /\ pc = "L145"
    /\ result' = Contract(loc)
    /\ pc' = IF IsErr(result') THEN "raised" ELSE "L146"
    /\ UNCHANGED <<fn, mem, mem0, loc>>

\* What the function the caller invoked returns: eval_deriv_prim (line 214), and
\* eval_prim through it, return element [0].
Returned(f, ret) ==
    IF f \in {"eval_deriv_prim", "eval_prim"} THEN BasicIndex(ret, <<At(0)>>) ELSE ret

\* The call of f on the caller's arrays m as a whole: [mem, ret], ret what the
\* caller gets back (the array returned or the exception raised).
Run(f, m) ==
    LET b == Body([mem |-> m, loc |-> Entry(f, m)])
    IN  [mem |-> b.mem, ret |-> IF IsErr(b.ret) THEN b.ret ELSE Returned(f, b.ret)]

Return ==
    /\ pc = "L146"
    /\ result' = Returned(fn, result)
    /\ pc' = IF IsErr(result') THEN "raised" ELSE "returned"
    /\ UNCHANGED <<fn, mem, mem0, loc>>

\* The caller is done with the result (or the exception) and may call again.
Finish ==
    /\ pc \in {"returned", "raised"}
    /\ pc' = "idle"
    /\ fn' = "none"
    /\ mem' = NoArrays
    /\ mem0' = NoArrays
    /\ loc' = Entry("none", NoArrays)
    /\ result' = Unbound

Next ==
    \/ Call_eval_deriv_contraction
    \/ Call_eval_contraction
    \/ Call_eval_deriv_prim
    \/ Call_eval_prim
    \/ WrapScalars
    \/ AdjustAxes
    \/ GaussianCore
    \/ ZerothOrder
    \/ SplitNonzero
    \/ HermiteIndices
    \/ AllCoeffs
    \/ ZeroBelowPass
    \/ ZeroAbovePass
    \/ HermitePart
    \/ ContractSum
    \/ Return
    \/ Finish

Spec == Init /\ [][Next]_vars

(***************************************************************************)
(* The mathematics the results are compared with.  A polynomial in x is    *)
(* the sequence of its coefficients, p[i] that of x^(i-1).                 *)
(***************************************************************************)
PolyDeriv(p) == [i \in 1..(Len(p) - 1) |-> i * p[i + 1]]
PolyTimesX(p) == <<0>> \o p
PolyScale(c, p) == [i \in 1..Len(p) |-> c * p[i]]
PolyAdd(p, q) ==
    [i \in 1..Max2(Len(p), Len(q)) |->
        (IF i <= Len(p) THEN p[i] ELSE 0) + (IF i <= Len(q) THEN q[i] ELSE 0)]

RECURSIVE PolyEval(_, _)
PolyEval(p, x) == IF Len(p) = 0 THEN 0 ELSE p[1] + x * PolyEval(Tail(p), x)

\* Q(n, m): the polynomial with d^n/dx^n [x^m exp(-a x^2)] = Q(n, m)(x) exp(-a x^2):
\* Q(0, m) = x^m and Q(j + 1, m) = dQ(j, m)/dx - 2 a x Q(j, m).
RECURSIVE Q(_, _, _)
Q(n, m, a) ==
    IF n = 0 THEN [i \in 1..(m + 1) |-> IF i = m + 1 THEN 1 ELSE 0]
    ELSE PolyAdd(PolyDeriv(Q(n - 1, m, a)), PolyScale(-2 * a, PolyTimesX(Q(n - 1, m, a))))

\* The arguments of the call in progress, as the caller passed them.
Finished == pc \in {"returned", "raised"}
Derivative == fn \in {"eval_deriv_contraction", "eval_deriv_prim"}
OnePoint == Len(mem0.coord.shape) = 1
OrderOf(d) == IF Derivative THEN mem0.orders.data[<<d - 1>>] ELSE 0
RelOf(d) == mem0.coord.data[<<d - 1>>] - mem0.center.data[<<d - 1>>]
AngmomOf(l, d) ==
    IF Len(mem0.angmom_comps.shape) = 1 THEN mem0.angmom_comps.data[<<d - 1>>]
    ELSE mem0.angmom_comps.data[<<l, d - 1>>]
AlphasOf ==
    IF IsPyScalar(mem0.alphas) THEN <<mem0.alphas.py>>
    ELSE [k \in 1..mem0.alphas.shape[1] |-> mem0.alphas.data[<<k - 1>>]]
CoeffsOf ==
    IF fn \in {"eval_deriv_prim", "eval_prim"} THEN <<1>>
    ELSE [k \in 1..mem0.prim_coeffs.shape[1] |-> mem0.prim_coeffs.data[<<k - 1>>]]
Dist2 == RelOf(1) * RelOf(1) + RelOf(2) * RelOf(2) + RelOf(3) * RelOf(3)

(***************************************************************************)
(* C1: a single primitive differentiated in one dimension.                 *)
(***************************************************************************)
\* eval_deriv_prim was called with a positive order in exactly one dimension, the
\* other two orders 0 and the other two components 0.
C1Dims ==
    {d \in 1..3 : /\ OrderOf(d) >= 1
                  /\ \A e \in (1..3) \ {d} : OrderOf(e) = 0 /\ AngmomOf(0, e) = 0}
C1Case == fn = "eval_deriv_prim" /\ Finished /\ C1Dims # {}
C1Dim == CHOOSE d \in C1Dims : TRUE

\* C1: for a single primitive with exponent a, derivative order n >= 1 and
\* angular component m >= 0 in one dimension (the other orders and components 0),
\* eval_deriv_prim returns Q(n, m)(a, x) * exp(-a |r - center|^2), x the relative
\* coordinate in that dimension; also when n > m and when x = 0.
C1_SinglePrimitiveDerivative ==
    C1Case =>
        /\ pc = "returned"
        /\ result.shape = <<>>
        /\ result.data[<<>>] =
               FOfG([c |-> PolyEval(Q(OrderOf(C1Dim), AngmomOf(0, C1Dim), AlphasOf[1]),
                                   RelOf(C1Dim)),
                     e |-> -AlphasOf[1] * Dist2])

\* A call of C1 with n > m at x = 0 that returned a nonzero value.
C1_Witness ==
    /\ C1Case
    /\ pc = "returned"
    /\ OrderOf(C1Dim) > AngmomOf(0, C1Dim)
    /\ RelOf(C1Dim) = 0
    /\ result.data[<<>>] # FZero

(***************************************************************************)
(* C2: derivatives in two or three dimensions.                             *)
(***************************************************************************)
\* The value of primitive k (1-based) for angular-momentum vector l (0-based) at
\* the point: the product over the dimensions of D^n [x^m exp(-a x^2)], a negative
\* order n counting as 0.
PrimValue(k, l) ==
    GNorm([c |-> PolyEval(Q(Max2(OrderOf(1), 0), AngmomOf(l, 1), AlphasOf[k]), RelOf(1))
                 * PolyEval(Q(Max2(OrderOf(2), 0), AngmomOf(l, 2), AlphasOf[k]), RelOf(2))
                 * PolyEval(Q(Max2(OrderOf(3), 0), AngmomOf(l, 3), AlphasOf[k]), RelOf(3)),
           e |-> -AlphasOf[k] * Dist2])

PositiveDims == {d \in 1..3 : OrderOf(d) > 0}
NumVectors ==
    IF Len(mem0.angmom_comps.shape) = 1 THEN 1 ELSE mem0.angmom_comps.shape[1]

\* The Hermite part of a call with two or three positive orders has been computed.
C2Case == pc = "L145" /\ Derivative /\ Cardinality(PositiveDims) >= 2

\* C2: when two or three dimensions have positive orders, possibly different, the
\* value eval_deriv_contraction computes for each primitive and angular-momentum
\* vector (zeroth_part * deriv_part) is the product over the three dimensions of
\* the one-dimensional derivatives: the shared index range 0..max(orders) does not
\* change the factor of a dimension of smaller order.
C2_ProductOverDimensions ==
    C2Case =>
        /\ loc.zeroth_part.shape = <<Len(AlphasOf), NumVectors>>
        /\ loc.deriv_part.shape = <<Len(AlphasOf), NumVectors>>
        /\ \A k \in 1..Len(AlphasOf), l \in 0..(NumVectors - 1) :
               GMul(loc.zeroth_part.data[<<k - 1, l>>], loc.deriv_part.data[<<k - 1, l>>])
                   = PrimValue(k, l)

\* A call with two different positive orders and a nonzero value for some vector.
C2_Witness ==
    /\ C2Case
    /\ \E d, e \in PositiveDims : OrderOf(d) < OrderOf(e)
    /\ \E k \in 1..Len(AlphasOf), l \in 0..(NumVectors - 1) : PrimValue(k, l).c # 0

(***************************************************************************)
(* C3: negative orders.                                                    *)
(***************************************************************************)
\* The caller's arrays with every negative order replaced by 0.
ClampedCall ==
    [mem0 EXCEPT !.orders = Array1("orders", [d \in 1..3 |-> Max2(OrderOf(d), 0)])]

C3Case == Finished /\ Derivative /\ \E d \in 1..3 : OrderOf(d) < 0

\* C3: a call with negative orders ends as the call with every negative order
\* replaced by 0 does, all other arguments equal: the same array, or the same
\* exception.
C3_NegativeOrdersAsZero ==
    C3Case =>
        LET ret == Run(fn, ClampedCall).ret
        IN  /\ result.err = ret.err
            /\ result.shape = ret.shape
            /\ result.data = ret.data

\* A call with a negative and a positive order that returned a nonzero value.
C3_Witness ==
    /\ C3Case
    /\ pc = "returned"
    /\ PositiveDims # {}
    /\ \E i \in DOMAIN result.data : result.data[i] # FZero

(***************************************************************************)
(* C4: the shape of the result on a grid of points.                        *)
(***************************************************************************)
NumPoints == IF OnePoint THEN 1 ELSE mem0.coord.shape[2]
SameK == Len(AlphasOf) = Len(CoeffsOf)
RelAt(d, p) ==
    (IF OnePoint THEN mem0.coord.data[<<d - 1>>] ELSE mem0.coord.data[<<d - 1, p>>])
        - mem0.center.data[<<d - 1>>]

\* The value of primitive k (1-based) for vector l at point p (0-based).
PrimValueAt(k, l, p) ==
    GNorm([c |-> PolyEval(Q(Max2(OrderOf(1), 0), AngmomOf(l, 1), AlphasOf[k]), RelAt(1, p))
                 * PolyEval(Q(Max2(OrderOf(2), 0), AngmomOf(l, 2), AlphasOf[k]), RelAt(2, p))
                 * PolyEval(Q(Max2(OrderOf(3), 0), AngmomOf(l, 3), AlphasOf[k]), RelAt(3, p)),
           e |-> -AlphasOf[k] * (RelAt(1, p) * RelAt(1, p) + RelAt(2, p) * RelAt(2, p)
                                 + RelAt(3, p) * RelAt(3, p))])

RECURSIVE ContractedValue(_, _, _)
ContractedValue(K, l, p) ==
    IF K = 0 THEN FZero
    ELSE FAdd(ContractedValue(K - 1, l, p), FOfG(IntMulG(CoeffsOf[K], PrimValueAt(K, l, p))))

\* eval_deriv_contraction ended on points of shape (3, N), components of shape
\* (L, 3), K exponents and K coefficients.
C4Case == Finished /\ fn = "eval_deriv_contraction" /\ ~OnePoint /\ SameK

\* C4: on points (3, N), components (L, 3), K exponents and K coefficients,
\* eval_deriv_contraction returns an array of shape (L, N) whose entry (l, p) is the
\* value for component l at point p, for every K, L, N >= 1 and every orders.
C4_ShapeLN ==
    C4Case =>
        /\ pc = "returned"
        /\ result.shape = <<NumVectors, NumPoints>>
        /\ \A l \in 0..(NumVectors - 1), p \in 0..(NumPoints - 1) :
               result.data[<<l, p>>] = ContractedValue(Len(AlphasOf), l, p)

(***************************************************************************)
(* C5: exponents and coefficients of different lengths.                    *)
(***************************************************************************)
C5Case == Finished /\ fn = "eval_deriv_contraction" /\ ~SameK

\* C5: a call of eval_deriv_contraction whose number of exponents differs from its
\* number of coefficients (one of them possibly a scalar or of length 1) raises and
\* returns no result.
C5_MismatchRaises == C5Case => pc = "raised"

(***************************************************************************)
(* C6: eval_contraction.                                                   *)
(***************************************************************************)
TermIndex(k, l, p) == IF OnePoint THEN <<k - 1, l>> ELSE <<k - 1, l, p>>

C6Case == Finished /\ fn = "eval_contraction" /\ SameK

\* C6: eval_contraction returns exactly what eval_deriv_contraction returns with
\* orders (0, 0, 0) and the same remaining arguments; the Hermite branch is
\* skipped, deriv_part is the scalar 1, and the term of each primitive is the
\* product over the three dimensions of rel^m * exp(-a rel^2).
C6_ContractionIsZeroOrder ==
    C6Case =>
        LET ret == Run("eval_deriv_contraction",
                       [mem0 EXCEPT !.orders = Array1("orders", <<0, 0, 0>>)]).ret
        IN  /\ result.err = ret.err /\ result.shape = ret.shape /\ result.data = ret.data
            /\ pc = "returned"
            /\ loc.hermite = Unbound
            /\ loc.deriv_part = Scalar(GOne)
            /\ \A k \in 1..Len(AlphasOf), l \in 0..(NumVectors - 1),
                  p \in 0..(NumPoints - 1) :
                   /\ TermIndex(k, l, p) \in DOMAIN loc.zeroth_part.data
                   /\ loc.zeroth_part.data[TermIndex(k, l, p)] = PrimValueAt(k, l, p)

(***************************************************************************)
(* C7: additivity over the primitives.                                     *)
(***************************************************************************)
\* The caller's arrays with the primitives from..to of the contraction only.
Primitives(from, to) ==
    [mem0 EXCEPT !.alphas = Array1("alphas", SubSeq(AlphasOf, from, to)),
                 !.prim_coeffs = Array1("prim_coeffs", SubSeq(CoeffsOf, from, to))]

C7Case == Finished /\ fn = "eval_deriv_contraction" /\ SameK /\ Len(AlphasOf) >= 2

\* C7: the result of eval_deriv_contraction on the concatenation of two primitive
\* lists is the sum of the results on the two lists (same center, components,
\* points and orders).
C7_AdditiveOverPrimitives ==
    C7Case =>
        LET first == Run(fn, Primitives(1, 1)).ret
            rest == Run(fn, Primitives(2, Len(AlphasOf))).ret
        IN  IF IsErr(first) \/ IsErr(rest) THEN pc = "raised"
            ELSE /\ pc = "returned"
                 /\ result.shape = first.shape
                 /\ result.shape = rest.shape
                 /\ \A i \in DOMAIN result.data :
                        result.data[i] = FAdd(first.data[i], rest.data[i])

(***************************************************************************)
(* C8: what deriv_part holds.                                              *)
(***************************************************************************)
\* The factor of dimension d in the Hermite part: 1 for a dimension of order <= 0.
HermiteFactor(k, l, d) ==
    IF d \in PositiveDims
    THEN PolyEval(Q(OrderOf(d), AngmomOf(l, d), AlphasOf[k]), RelOf(d))
    ELSE 1
\* The factor of dimension d in the zeroth-order part: 1 for a dimension of
\* positive order.
Monomial(l, d) == IF d \in PositiveDims THEN 1 ELSE Pow(RelOf(d), AngmomOf(l, d))
\* The sum over the dimensions of D of the squared relative coordinate.
Dist2Over(D) ==
    (IF 1 \in D THEN RelOf(1) * RelOf(1) ELSE 0) + (IF 2 \in D THEN RelOf(2) * RelOf(2) ELSE 0)
        + (IF 3 \in D THEN RelOf(3) * RelOf(3) ELSE 0)
\* The Hermite values of the dimensions of positive order times the Gaussian
\* factors of the dimensions of D.
HermiteTimesGauss(k, l, D) ==
    GNorm([c |-> HermiteFactor(k, l, 1) * HermiteFactor(k, l, 2) * HermiteFactor(k, l, 3),
           e |-> -AlphasOf[k] * Dist2Over(D)])

\* Line 143 has run: deriv_part of a call with a positive order is computed.
C8Case == pc = "L145" /\ Derivative /\ PositiveDims # {}

\* C8 (as stated): deriv_part is, for each primitive and angular-momentum vector,
\* the product over the dimensions of positive order of the Hermite-polynomial
\* value, times the Gaussian factors of ALL three dimensions.
C8_GaussOfAllDims ==
    C8Case =>
        \A k \in 1..Len(AlphasOf), l \in 0..(NumVectors - 1) :
            loc.deriv_part.data[<<k - 1, l>>] = HermiteTimesGauss(k, l, 1..3)

\* C8 (amended): deriv_part is the product over the dimensions of positive order
\* of the Hermite-polynomial value times the Gaussian factors of those dimensions
\* only; the Gaussian factors of the dimensions of order <= 0 are in zeroth_part.
C8_GaussOfPositiveDims ==
    C8Case =>
        /\ loc.deriv_part.shape = <<Len(AlphasOf), NumVectors>>
        /\ \A k \in 1..Len(AlphasOf), l \in 0..(NumVectors - 1) :
               /\ loc.deriv_part.data[<<k - 1, l>>] = HermiteTimesGauss(k, l, PositiveDims)
               /\ loc.zeroth_part.data[<<k - 1, l>>] =
                      GNorm([c |-> Monomial(l, 1) * Monomial(l, 2) * Monomial(l, 3),
                             e |-> -AlphasOf[k] * Dist2Over((1..3) \ PositiveDims)])

\* A call with a dimension of order <= 0 away from the center in that dimension,
\* and a nonzero deriv_part.
C8_Witness ==
    /\ C8Case
    /\ \E d \in (1..3) \ PositiveDims : RelOf(d) # 0
    /\ \E i \in DOMAIN loc.deriv_part.data : loc.deriv_part.data[i].c # 0

(***************************************************************************)
(* C9: the arguments are left unchanged.                                   *)
(***************************************************************************)
\* The powers of rel_coord before line 100 clamps them.
UnclampedPowers ==
    IndicesAngmom(loc.nonzero_angmom_comps, loc.nonzero_orders, loc.indices_herm)

\* C9: the four functions leave every argument array unchanged: the arrays written
\* in place (indices_angmom at line 100, coeffs at lines 110 and 112) are allocated
\* inside the call, and the call repeated on the same arrays ends the same way.
C9_ArgumentsUnchanged ==
    /\ mem = mem0
    /\ pc \in {"L102", "L109", "L111", "L118"} => loc.indices_angmom.base = ""
    /\ pc \in {"L109", "L111", "L118"} => loc.coeffs.base = ""
    /\ Finished =>
           LET again == Run(fn, mem)
           IN  /\ again.mem = mem0
               /\ again.ret.err = result.err
               /\ again.ret.shape = result.shape
               /\ again.ret.data = result.data

\* Both zeroing passes have run in a call where line 100 clamped a power and each
\* pass wrote an entry.
C9_Witness ==
    /\ pc = "L118"
    /\ \E i \in DOMAIN UnclampedPowers.data :
           UnclampedPowers.data[i] < 0 /\ loc.indices_angmom.data[i] = 0
    /\ Where(Broadcast("less", loc.indices_herm,
                 Broadcast("maximum", Scalar(0),
                     Broadcast("sub", loc.nonzero_orders, loc.nonzero_angmom_comps)))) # {}
    /\ Where(Broadcast("less", loc.nonzero_orders, loc.indices_herm)) # {}

(***************************************************************************)
(* C10: the coefficient table after the two zeroing passes.                *)
(***************************************************************************)
\* The dimension at position j (0-based) of the arrays of the positive orders.
PositiveDim(j) == CHOOSE d \in PositiveDims : Cardinality({e \in PositiveDims : e < d}) = j
MaxPositiveOrder == CHOOSE n \in {OrderOf(d) : d \in PositiveDims} :
                        \A d \in PositiveDims : OrderOf(d) <= n

\* C(n, h) * P(m, n - h) * (-sqrt(a))^h * x^(m - n + h), and 0 when h > n or
\* h < max(0, n - m).
HermiteCoefficient(h, n, m, a, x) ==
    IF h > n \/ h < Max2(0, n - m) THEN 0
    ELSE (Factorial(n) \div (Factorial(h) * Factorial(n - h)))
         * (Factorial(m) \div Factorial(m - (n - h)))
         * Pow(-Sqrt(a), h) * Pow(x, m - n + h)

\* Both zeroing passes have run.
C10Case == pc = "L118"

\* C10: after the two zeroing passes the entry of the coefficient table for Hermite
\* index h, primitive k, dimension d of positive order n and vector l with
\* component m in d is 0 when h > n or h < max(0, n - m), and otherwise
\* C(n, h) * P(m, n - h) * (-sqrt(alpha_k))^h * rel_d^(m - n + h); no power of rel_d
\* evaluated is negative, and no entry of another dimension or vector is zeroed.
C10_CoefficientTable ==
    C10Case =>
        /\ loc.coeffs.shape =
               <<MaxPositiveOrder + 1, Len(AlphasOf), Cardinality(PositiveDims), NumVectors>>
        /\ loc.indices_angmom.shape = <<MaxPositiveOrder + 1, 1, Cardinality(PositiveDims),
                                        NumVectors>>
        /\ \A i \in DOMAIN loc.indices_angmom.data : loc.indices_angmom.data[i] >= 0
        /\ \A h \in 0..MaxPositiveOrder, k \in 1..Len(AlphasOf),
              j \in 0..(Cardinality(PositiveDims) - 1), l \in 0..(NumVectors - 1) :
               loc.coeffs.data[<<h, k - 1, j, l>>] =
                   HermiteCoefficient(h, OrderOf(PositiveDim(j)), AngmomOf(l, PositiveDim(j)),
                                      AlphasOf[k], RelOf(PositiveDim(j)))

\* A table of two dimensions of different orders with a nonzero entry, an entry
\* with h > n and an entry with h < n - m.
C10_Witness ==
    /\ C10Case
    /\ \E d, e \in PositiveDims : OrderOf(d) < OrderOf(e)
    /\ \E i \in DOMAIN loc.coeffs.data : loc.coeffs.data[i] # 0
    /\ \E d \in PositiveDims, l \in 0..(NumVectors - 1) : OrderOf(d) > AngmomOf(l, d)

====
